---- MODULE Spec2Model ----
(***************************************************************************)
(* State-machine model of trag.py (mcjs test262 runner and result store). *)
(*                                                                         *)
(* Part 1, `run` (src/trag.py:123-345): the per-revision loop, the         *)
(* checkout/build step, the semaphore-limited test tasks, their            *)
(* subprocesses and timeouts, and the results files.  The model covers     *)
(* `run` with and without --commits, without --dry-run and --filter.       *)
(*                                                                         *)
(* Part 2, `ingest` (src/trag.py:352-426): the SQLite transaction that     *)
(* loads result lines into the strings/groups/runs tables.                 *)
(*                                                                         *)
(* Part 3, `status` and `diff` (src/trag.py:433-582): the queries, and     *)
(* insert_string (src/trag.py:90-95), the interning of strings.            *)
(***************************************************************************)
EXTENDS Integers, Sequences, FiniteSets, Bags, TLC

\* ------------------------------------------------------------------ bounds
NumCommits == 2   \* lines of the commits file
MaxJobs == 2      \* largest --max-jobs value tried

\* --------------------------------------------------------------- test cases
\* testrun['testcases']: rel_path -> metadata (flags, negative).
AllTestCases ==
  [p \in {"a/x.js", "a/y.js", "b/z.js", "b/w.js"} |->
     CASE p = "a/x.js" -> [flags |-> {}, negative |-> FALSE]
       [] p = "a/y.js" -> [flags |-> {"onlyStrict"}, negative |-> TRUE]
       [] p = "b/z.js" -> [flags |-> {"noStrict"}, negative |-> FALSE]
       [] OTHER        -> [flags |-> {"onlyStrict", "noStrict"}, negative |-> FALSE]]

Paths == DOMAIN AllTestCases
Units == Paths \X BOOLEAN          \* (rel_path, use_strict)

\* The commits file: revision k stands for the hash on line k.
Revisions == 1..NumCommits

\* ---------------------------------------------------------------- verdicts
\* Python's None for output['error'].
None == [category |-> "None", message |-> "None"]

TimeoutError == [category |-> "timeout", message |-> "runner timed out"]
UnexpectedSuccess ==
  [category |-> "unexpected success", message |-> "error expected, but test run fine"]
RunnerFailure(msg) == [category |-> "runner failure", message |-> msg]

\* One line the engine binary can print, and what json.loads makes of it.
PassLine == "{\"error\": null}"
FailLine == "{\"error\": {\"category\": \"test\", \"message\": \"TypeError: x\"}}"
NoiseLine == "warning: noise"

\* json.loads(line): the parsed object, or the exception it raises.
JsonLoads(line) ==
  CASE line = PassLine -> [raised |-> "none", error |-> None]
    [] line = FailLine ->
         [raised |-> "none", error |-> [category |-> "test", message |-> "TypeError: x"]]
    [] OTHER -> [raised |-> "JSONDecodeError", error |-> None]

\* What a subprocess leaves behind when it exits on its own: the bytes of its
\* stdout (as text, as lines, and whether they decode as UTF-8) and its exit code.
Exits ==
  { [returncode |-> 0, text |-> PassLine, lines |-> <<PassLine>>, utf8 |-> TRUE],
    [returncode |-> 0, text |-> "warning: noise\n{fail}", lines |-> <<NoiseLine, FailLine>>,
     utf8 |-> TRUE],
    [returncode |-> 0, text |-> "{pass}\nwarning: noise", lines |-> <<PassLine, NoiseLine>>,
     utf8 |-> TRUE],
    [returncode |-> 0, text |-> "", lines |-> <<>>, utf8 |-> TRUE],
    [returncode |-> 1, text |-> "panicked", lines |-> <<"panicked">>, utf8 |-> TRUE],
    [returncode |-> 1, text |-> "\\xff", lines |-> <<"\\xff">>, utf8 |-> FALSE] }

\* The state of a subprocess that never exits before the timeout.
Hung == [returncode |-> -9, text |-> "", lines |-> <<>>, utf8 |-> TRUE]

\* A classification that looks at the exit code before the timeout.
ClassifyExitFirst(timed_out, exit) ==
  IF exit.returncode # 0
    THEN [raised |-> "none",
          error |-> RunnerFailure(IF exit.utf8 THEN exit.text ELSE "<# encoding error #>")]
  ELSE IF timed_out THEN [raised |-> "none", error |-> TimeoutError]
    ELSE IF Len(exit.lines) = 0 THEN [raised |-> "IndexError", error |-> None]
    ELSE JsonLoads(exit.lines[Len(exit.lines)])

\* Runner.run_test lines 300-330: the classified output, or the exception raised.
Classify(timed_out, exit) ==
  IF timed_out THEN [raised |-> "none", error |-> TimeoutError]
  ELSE IF exit.returncode # 0
    THEN [raised |-> "none",
          error |-> RunnerFailure(IF exit.utf8 THEN exit.text ELSE "<# encoding error #>")]
    ELSE IF Len(exit.lines) = 0 THEN [raised |-> "IndexError", error |-> None]
    ELSE JsonLoads(exit.lines[Len(exit.lines)])

\* A reconciliation that leaves a timeout of a negative test as it is.
ReconcileKeepsTimeout(expected_negative, error) ==
  IF expected_negative /\ error # TimeoutError
    THEN (IF error = None THEN UnexpectedSuccess ELSE None)
    ELSE error

\* Runner.run_test lines 332-340: negative-test reconciliation of output['error'].
Reconcile(expected_negative, error) ==
  IF expected_negative
    THEN (IF error = None THEN UnexpectedSuccess ELSE None)
    ELSE error

\* Runner.run_test lines 342-345: the tags.
Tagged(rel_path, vm_version, use_strict, error) ==
  [testcase |-> rel_path, version |-> vm_version, use_strict |-> use_strict,
   error |-> error]

\* Runner.run_test as a whole: [raised, outcome (before reconciliation), verdict],
\* with how the wait for the subprocess ended (timed_out) and what the
\* subprocess left behind (stdout and process.returncode).
RunTest(rel_path, vm_version, use_strict, expected_negative, timed_out, exit) ==
  LET c == Classify(timed_out, exit) IN
  [raised |-> c.raised,
   timed_out |-> timed_out,
   exit |-> exit,
   outcome |-> c.error,
   verdict |-> Tagged(rel_path, vm_version, use_strict,
                      Reconcile(expected_negative, c.error))]


\* ------------------------------------------------------------------- state
VARIABLES
  commits_filename, \* run: whether --commits was given
  commits,      \* run: the revisions to test, in order
  testcases,    \* run: the rel_paths of testrun['testcases']
  force,        \* run: --force
  max_jobs,     \* run: --max-jobs
  pc,           \* run: where the main program is
  idx,          \* run: position of the `for vm_version in commits` loop
  exc,          \* run: the exception that ended the program, or "none"
  head,         \* what the mcjs repository has checked out
  gz,           \* per revision: the compressed results file (out_compressed)
  jsonl,        \* per revision: the uncompressed results file (out)
  tasks,        \* per unit of the current revision: the run_test task
  free,         \* the value of testcase_semaphore
  lingering,    \* subprocesses that were sent SIGKILL and have not exited yet
  phase         \* per revision: how far its processing got

runVars == <<commits_filename, commits, testcases, force, max_jobs, pc, idx, exc,
             head, gz, jsonl, tasks, free, lingering, phase>>

VARIABLES
  db,           \* the committed contents of the database file
  txn,          \* ingest: the contents as the open transaction sees them
  ipc,          \* ingest: "idle", or "lines" while the data files are read
  clear,        \* ingest: --clear
  todo,         \* ingest: the lines not read yet
  batch,        \* ingest: all the lines of this invocation
  before,       \* ingest: db when the invocation started
  skipped,      \* ingest: how many lines were skipped as invalid JSON
  outcome       \* how the last ingest invocation ended

storeVars == <<db, txn, ipc, clear, todo, batch, before, skipped, outcome>>

VARIABLES
  report,       \* status, diff: the rows fetched by the last query command
  cache,        \* insert_string: the functools.cache of this process
  returned      \* insert_string: per string, the ids its calls returned, in order

queryVars == <<report, cache, returned>>

vars == <<runVars, storeVars, queryVars>>

\* The checkout before the run started (a branch), and after `git checkout <hash>`.
OrigHead == [kind |-> "branch", rev |-> 0]
Detached(v) == [kind |-> "detached", rev |-> v]

NoFile == [state |-> "absent", lines |-> EmptyBag]

\* A results file left by an earlier test of revision v.
EarlierFile(v) ==
  [state |-> "earlier", lines |-> SetToBag({Tagged("a/x.js", v, FALSE, None)})]

NoTask ==
  [st |-> "none", timed_out |-> FALSE, exit |-> Hung, outcome |-> None,
   verdict |-> Tagged("", 0, FALSE, None)]
PendingTask == [NoTask EXCEPT !.st = "pending"]

\* A submission that reads the two flags the wrong way round.
SubmittedModesSwapped(flags) ==
  (IF "noStrict" \notin flags THEN {FALSE} ELSE {})
    \cup (IF "onlyStrict" \notin flags THEN {TRUE} ELSE {})

\* run lines 212-216: the strictness modes submitted for one test case.
SubmittedModes(flags) ==
  (IF "onlyStrict" \notin flags THEN {FALSE} ELSE {})
    \cup (IF "noStrict" \notin flags THEN {TRUE} ELSE {})

\* run lines 194-216: the units submitted for the selected test cases.
SubmittedUnits(tcs) ==
  {u \in Units : u[1] \in tcs /\ u[2] \in SubmittedModes(AllTestCases[u[1]].flags)}

vm_version == commits[idx]

\* Test subprocesses that have been started and have not exited.
RunningUnits == {u \in Units : tasks[u].st = "running"}
LiveProcs == Cardinality(RunningUnits) + lingering

\* run lines 129-140: the revisions are the lines of the commits file, or,
\* without --commits, the one revision the repository has checked out.
\* The inputs of one run: a batch of all test cases at one revision, one test
\* case over the whole commits file, or one test case without --commits.
RunInputs ==
  { [commits_filename |-> TRUE, commits |-> <<1>>, testcases |-> Paths],
    [commits_filename |-> TRUE, commits |-> [k \in 1..NumCommits |-> k],
     testcases |-> {"a/y.js"}],
    [commits_filename |-> FALSE, commits |-> <<1>>, testcases |-> {"a/x.js"}] }

\* A smaller set of inputs: one ordinary and one negative test case at one
\* revision, or one test case over the whole commits file.
SmallRunInputs ==
  { [commits_filename |-> TRUE, commits |-> <<1>>, testcases |-> {"a/y.js", "b/z.js"}],
    [commits_filename |-> TRUE, commits |-> [k \in 1..NumCommits |-> k],
     testcases |-> {"a/y.js"}],
    [commits_filename |-> FALSE, commits |-> <<1>>, testcases |-> {"b/z.js"}] }

RunInitWith(inputs) ==
  /\ \E inp \in inputs :
       /\ commits_filename = inp.commits_filename
       /\ commits = inp.commits
       /\ testcases = inp.testcases
  /\ force \in BOOLEAN
  /\ max_jobs \in 1..MaxJobs
  /\ pc = "loop"
  /\ idx = 1
  /\ exc = "none"
  /\ head = OrigHead
  /\ gz \in {[v \in Revisions |-> IF v \in S THEN EarlierFile(v) ELSE NoFile] :
               S \in SUBSET Revisions}
  /\ jsonl = [v \in Revisions |-> NoFile]
  /\ tasks = [u \in Units |-> NoTask]
  /\ free = 0
  /\ lingering = 0
  /\ phase = [v \in Revisions |-> "Pending"]

\* The end of one iteration of the loop over commits (lines 148, 165, 179, 238).
NextRevision ==
  /\ idx' = idx + 1
  /\ pc' = IF idx + 1 > Len(commits) THEN "done" ELSE "loop"

\* run lines 163-165: the results file exists and --force is not set.
AlreadyTested(v) == gz[v].state # "absent" /\ ~force

\* A skip that checks the revision out before it looks for the results file.
SkipTestedAfterCheckout ==
  /\ pc = "loop"
  /\ AlreadyTested(vm_version)
  /\ head' = Detached(vm_version)
  /\ phase' = [phase EXCEPT ![vm_version] = "Skipped"]
  /\ NextRevision
  /\ UNCHANGED <<commits_filename, commits, testcases, force, max_jobs, exc, gz,
                 jsonl, tasks, free, lingering>>
  /\ UNCHANGED <<storeVars, queryVars>>

SkipTested ==
  /\ pc = "loop"
  /\ AlreadyTested(vm_version)
  /\ phase' = [phase EXCEPT ![vm_version] = "Skipped"]
  /\ NextRevision
  /\ UNCHANGED <<commits_filename, commits, testcases, force, max_jobs, exc, head,
                 gz, jsonl, tasks, free, lingering>>
  /\ UNCHANGED <<storeVars, queryVars>>

\* run line 167 without --commits: switch_to_version is not called and the
\* tests run on what the repository has checked out and built.
NoSwitch ==
  /\ pc = "loop"
  /\ ~AlreadyTested(vm_version)
  /\ ~commits_filename
  /\ pc' = "submit"
  /\ UNCHANGED <<commits_filename, commits, testcases, force, max_jobs, idx, exc,
                 head, gz, jsonl, tasks, free, lingering, phase>>
  /\ UNCHANGED <<storeVars, queryVars>>

\* run lines 167-172: switch_to_version is called.
BeginSwitch ==
  /\ pc = "loop"
  /\ ~AlreadyTested(vm_version)
  /\ commits_filename
  /\ pc' = "checkout"
  /\ phase' = [phase EXCEPT ![vm_version] = "Building"]
  /\ UNCHANGED <<commits_filename, commits, testcases, force, max_jobs, idx, exc,
                 head, gz, jsonl, tasks, free, lingering>>
  /\ UNCHANGED <<storeVars, queryVars>>

\* switch_to_version lines 265-268: `git checkout`, check=True, outside the try.
GitCheckout ==
  /\ pc = "checkout"
  /\ \E ok \in BOOLEAN :
       IF ok
         THEN head' = Detached(vm_version) /\ pc' = "build" /\ exc' = exc
         ELSE head' = head /\ pc' = "raised" /\ exc' = "CalledProcessError"
  /\ UNCHANGED <<commits_filename, commits, testcases, force, max_jobs, idx, gz,
                 jsonl, tasks, free, lingering, phase>>
  /\ UNCHANGED <<storeVars, queryVars>>

\* A build step whose failure is not noticed: the tests are submitted anyway.
CargoBuildGoesOn ==
  /\ pc = "build"
  /\ \E ok \in BOOLEAN :
       IF ok
         THEN pc' = "submit" /\ UNCHANGED <<idx, jsonl, phase>>
         ELSE /\ jsonl' = [jsonl EXCEPT ![vm_version] =
                             [state |-> "builderror", lines |-> EmptyBag]]
              /\ phase' = [phase EXCEPT ![vm_version] = "BuildFailed"]
              /\ pc' = "submit" /\ idx' = idx
  /\ UNCHANGED <<commits_filename, commits, testcases, force, max_jobs, exc, head,
                 gz, tasks, free, lingering>>
  /\ UNCHANGED <<storeVars, queryVars>>

\* switch_to_version lines 270-276 and run lines 173-179: `cargo build`; its
\* failure is VersionSwitchError, which run answers with a comment line in out.
CargoBuild ==
  /\ pc = "build"
  /\ \E ok \in BOOLEAN :
       IF ok
         THEN pc' = "submit" /\ UNCHANGED <<idx, jsonl, phase>>
         ELSE /\ jsonl' = [jsonl EXCEPT ![vm_version] =
                             [state |-> "builderror", lines |-> EmptyBag]]
              /\ phase' = [phase EXCEPT ![vm_version] = "BuildFailed"]
              /\ NextRevision
  /\ UNCHANGED <<commits_filename, commits, testcases, force, max_jobs, exc, head,
                 gz, tasks, free, lingering>>
  /\ UNCHANGED <<storeVars, queryVars>>

\* run lines 181-222 and 236-237: the semaphore, one task per unit, the event
\* loop started and out opened for writing.
SubmitTasks ==
  /\ pc = "submit"
  /\ free' = max_jobs
  /\ tasks' = [u \in Units |->
                 IF u \in SubmittedUnits(testcases) THEN PendingTask ELSE NoTask]
  /\ jsonl' = [jsonl EXCEPT ![vm_version] = [state |-> "open", lines |-> EmptyBag]]
  /\ phase' = [phase EXCEPT ![vm_version] = "Running"]
  /\ pc' = "collect"
  /\ UNCHANGED <<commits_filename, commits, testcases, force, max_jobs, idx, exc,
                 head, gz, lingering>>
  /\ UNCHANGED <<storeVars, queryVars>>

\* call_limited lines 185-186 and run_test lines 285-298: a task takes the
\* semaphore and starts its subprocess.
StartTest(u) ==
  /\ pc = "collect"
  /\ tasks[u].st = "pending"
  /\ free > 0
  /\ free' = free - 1
  /\ tasks' = [tasks EXCEPT ![u].st = "running"]
  /\ UNCHANGED <<commits_filename, commits, testcases, force, max_jobs, pc, idx, exc,
                 head, gz, jsonl, lingering, phase>>
  /\ UNCHANGED <<storeVars, queryVars>>

\* A collector that writes no line for a test that timed out.
TaskEndsDropsTimeouts(u, r) ==
  /\ free' = free + 1
  /\ IF r.raised = "none"
       THEN /\ tasks' = [tasks EXCEPT ![u] =
                           [st |-> "done", timed_out |-> r.timed_out, exit |-> r.exit,
                            outcome |-> r.outcome, verdict |-> r.verdict]]
            /\ jsonl' = IF r.outcome = TimeoutError THEN jsonl
                        ELSE [jsonl EXCEPT ![vm_version].lines = @ (+) SetToBag({r.verdict})]
            /\ UNCHANGED <<pc, exc>>
       ELSE /\ tasks' = [tasks EXCEPT ![u] =
                           [@ EXCEPT !.st = "raised", !.timed_out = r.timed_out,
                                     !.exit = r.exit]]
            /\ pc' = "raised"
            /\ exc' = r.raised
            /\ UNCHANGED jsonl

\* The task of unit u ends with result r of run_test: the semaphore is released
\* (line 185) and collect_results writes the line (lines 223-228), or the
\* exception leaves collect_results, asyncio.run and run.
TaskEnds(u, r) ==
  /\ free' = free + 1
  /\ IF r.raised = "none"
       THEN /\ tasks' = [tasks EXCEPT ![u] =
                           [st |-> "done", timed_out |-> r.timed_out, exit |-> r.exit,
                            outcome |-> r.outcome, verdict |-> r.verdict]]
            /\ jsonl' = [jsonl EXCEPT ![vm_version].lines = @ (+) SetToBag({r.verdict})]
            /\ UNCHANGED <<pc, exc>>
       ELSE /\ tasks' = [tasks EXCEPT ![u] =
                           [@ EXCEPT !.st = "raised", !.timed_out = r.timed_out,
                                     !.exit = r.exit]]
            /\ pc' = "raised"
            /\ exc' = r.raised
            /\ UNCHANGED jsonl

\* run_test lines 302-305 and 314-345: communicate() returns before the timeout.
TestExits(u) ==
  /\ pc = "collect"
  /\ tasks[u].st = "running"
  /\ \E exit \in Exits :
       TaskEnds(u, RunTest(u[1], vm_version, u[2], AllTestCases[u[1]].negative,
                           FALSE, exit))
  /\ UNCHANGED <<commits_filename, commits, testcases, force, max_jobs, idx, head,
                 gz, lingering, phase>>
  /\ UNCHANGED <<storeVars, queryVars>>

\* A timeout handler that abandons the subprocess: no process.kill().
TestTimeoutAbandons(u) ==
  /\ pc = "collect"
  /\ tasks[u].st = "running"
  /\ lingering' = lingering
  /\ TaskEnds(u, RunTest(u[1], vm_version, u[2], AllTestCases[u[1]].negative,
                         TRUE, Hung))
  /\ UNCHANGED <<commits_filename, commits, testcases, force, max_jobs, idx, head,
                 gz, phase>>
  /\ UNCHANGED <<storeVars, queryVars>>

\* run_test lines 306-313: wait_for raises TimeoutError; process.kill() sends
\* SIGKILL and returns without waiting for the subprocess to exit.
TestTimeout(u) ==
  /\ pc = "collect"
  /\ tasks[u].st = "running"
  /\ lingering' = lingering + 1
  /\ TaskEnds(u, RunTest(u[1], vm_version, u[2], AllTestCases[u[1]].negative,
                         TRUE, Hung))
  /\ UNCHANGED <<commits_filename, commits, testcases, force, max_jobs, idx, head,
                 gz, phase>>
  /\ UNCHANGED <<storeVars, queryVars>>

\* The operating system ends a subprocess that was sent SIGKILL.
ProcDie ==
  /\ lingering > 0
  /\ lingering' = lingering - 1
  /\ UNCHANGED <<commits_filename, commits, testcases, force, max_jobs, pc, idx, exc,
                 head, gz, jsonl, tasks, free, phase>>
  /\ UNCHANGED <<storeVars, queryVars>>

\* collect_results lines 223-231: every task has been collected, out is closed
\* and gzip.open creates (or truncates) out_compressed.
CompressOpen ==
  /\ pc = "collect"
  /\ \A u \in Units : tasks[u].st \in {"none", "done"}
  /\ gz' = [gz EXCEPT ![vm_version] = [state |-> "open", lines |-> EmptyBag]]
  /\ pc' = "compress"
  /\ UNCHANGED <<commits_filename, commits, testcases, force, max_jobs, idx, exc,
                 head, jsonl, tasks, free, lingering, phase>>
  /\ UNCHANGED <<storeVars, queryVars>>

\* collect_results lines 232-234 and run line 238: the copy, out.unlink(), the
\* event loop closed with its tasks.
CompressCopy ==
  /\ pc = "compress"
  /\ gz' = [gz EXCEPT ![vm_version] =
              [state |-> "written", lines |-> jsonl[vm_version].lines]]
  /\ jsonl' = [jsonl EXCEPT ![vm_version] = NoFile]
  /\ tasks' = [u \in Units |-> NoTask]
  /\ phase' = [phase EXCEPT ![vm_version] = "Persisted"]
  /\ NextRevision
  /\ UNCHANGED <<commits_filename, commits, testcases, force, max_jobs, exc, head,
                 free, lingering>>
  /\ UNCHANGED <<storeVars, queryVars>>

\* The operator interrupts the program (KeyboardInterrupt, caught nowhere).
Interrupt ==
  /\ pc \notin {"done", "raised"}
  /\ pc' = "raised"
  /\ exc' = "KeyboardInterrupt"
  /\ UNCHANGED <<commits_filename, commits, testcases, force, max_jobs, idx, head,
                 gz, jsonl, tasks, free, lingering, phase>>
  /\ UNCHANGED <<storeVars, queryVars>>

RunNext ==
  \/ SkipTested
  \/ NoSwitch
  \/ BeginSwitch
  \/ GitCheckout
  \/ CargoBuild
  \/ SubmitTasks
  \/ \E u \in Units : StartTest(u)
  \/ \E u \in Units : TestExits(u)
  \/ \E u \in Units : TestTimeout(u)
  \/ ProcDie
  \/ CompressOpen
  \/ CompressCopy
  \/ Interrupt

\* ------------------------------------------------------------------ ingest
MaxLines == 2     \* lines of the data files of one ingest invocation


\* os.path.dirname on the paths of the model.
Dirname(path) ==
  CASE path = "a/x.js" -> "a"
    [] path = "a/y.js" -> "a"
    [] path = "b/z.js" -> "b"
    [] path = "b/w.js" -> "b"
    [] OTHER -> ""

\* Table strings: row i is (string_id = i, string); the column is unique.
HasString(strings, s) == \E i \in 1..Len(strings) : strings[i] = s

\* A plain insert into a column without the unique constraint.
InsertStringAgain(strings, s) == Append(strings, s)

\* insert_string lines 93-95: insert or ignore, then select string_id.
InsertString(strings, s) == IF HasString(strings, s) THEN strings ELSE Append(strings, s)
StringId(strings, s) == CHOOSE i \in 1..Len(strings) : strings[i] = s

\* NULL in a column of runs.
Null == 0

EmptyStore == [strings |-> <<>>, groups |-> {}, runs |-> EmptyBag]

\* insert_run lines 381-406 with every insert_string call given its database:
\* the strings interned, the group mapping inserted if absent, the run appended.
InsertRunRows(store, record) ==
  LET s1 == InsertString(store.strings, Dirname(record.testcase))
      s2 == InsertString(s1, record.testcase)
      s3 == IF record.error = None THEN s2 ELSE InsertString(s2, record.error.message)
      testcase_sid == StringId(s3, record.testcase)
      group_sid == StringId(s3, Dirname(record.testcase))
      row == [testcase_sid |-> testcase_sid,
              error_category |-> IF record.error = None THEN "NULL"
                                 ELSE record.error.category,
              error_message_sid |-> IF record.error = None THEN Null
                                    ELSE StringId(s3, record.error.message),
              use_strict |-> IF record.use_strict THEN 1 ELSE 0,
              version |-> record.version]
  IN [strings |-> s3,
      groups |-> IF \E g \in store.groups : g.path_sid = testcase_sid
                   THEN store.groups
                   ELSE store.groups \cup {[path_sid |-> testcase_sid,
                                            group_sid |-> group_sid]},
      runs |-> store.runs (+) SetToBag({row})]

\* def insert_string(db, s) has two parameters (line 91); insert_run calls it
\* with one argument (lines 382, 383, 390).
InsertStringParams == 2
InsertRunCallArgs == 1

\* insert_run: the call on line 382 raises TypeError before any statement runs
\* when the argument count does not fit.
InsertRun(store, record) ==
  IF InsertRunCallArgs # InsertStringParams
    THEN [raised |-> "TypeError", store |-> store]
    ELSE [raised |-> "none", store |-> InsertRunRows(store, record)]

\* --clear as it would act were the script committed as it runs.
ClearAutocommitted(committed, working, flag) ==
  [db |-> IF flag THEN [committed EXCEPT !.groups = {}, !.runs = EmptyBag] ELSE committed,
   txn |-> IF flag THEN [working EXCEPT !.groups = {}, !.runs = EmptyBag] ELSE working]

\* ingest lines 373-378 under sqlite3.connect(autocommit=False): the deletes
\* run inside the open transaction; the committed contents are untouched.
ClearInTransaction(committed, working, flag) ==
  [db |-> committed,
   txn |-> IF flag THEN [working EXCEPT !.groups = {}, !.runs = EmptyBag] ELSE working]

\* The lines a data file can hold: a run record, or text that is not JSON
\* (such as the "# {...}" comment run writes after a failed build).
Malformed == [json |-> FALSE, record |-> Tagged("", 0, FALSE, None)]
RecordLine(r) == [json |-> TRUE, record |-> r]
LineSamples ==
  { Malformed,
    RecordLine(Tagged("a/x.js", 1, FALSE, None)),
    RecordLine(Tagged("b/z.js", 1, TRUE, [category |-> "test", message |-> "TypeError: x"])) }

Batches == UNION {[1..n -> LineSamples] : n \in 0..MaxLines}

\* Databases found on disk when ingest starts: none yet, or one holding the
\* records of an earlier test of revision 1.
StoreSamples ==
  { EmptyStore,
    InsertRunRows(EmptyStore, Tagged("a/x.js", 1, FALSE, None)),
    InsertRunRows(InsertRunRows(EmptyStore, Tagged("a/x.js", 1, FALSE, None)),
                  Tagged("b/z.js", 2, TRUE,
                         [category |-> "test", message |-> "TypeError: x"])) }

\* No ingest is in progress.
StoreIdle ==
  /\ txn = db
  /\ ipc = "idle"
  /\ clear = FALSE
  /\ todo = <<>>
  /\ batch = <<>>
  /\ before = db
  /\ skipped = 0
  /\ outcome = "none"

StoreInit ==
  /\ db \in StoreSamples
  /\ txn = db
  /\ ipc = "idle"
  /\ clear = FALSE
  /\ todo = <<>>
  /\ batch = <<>>
  /\ before = db
  /\ skipped = 0
  /\ outcome = "none"

\* ingest lines 352-378: connect, create the tables if absent, --clear.
IngestBegin ==
  /\ ipc = "idle"
  /\ \E c \in BOOLEAN, b \in Batches :
       LET r == ClearInTransaction(db, db, c) IN
       /\ clear' = c
       /\ batch' = b
       /\ todo' = b
       /\ db' = r.db
       /\ txn' = r.txn
  /\ before' = db
  /\ skipped' = 0
  /\ outcome' = "running"
  /\ ipc' = "lines"
  /\ UNCHANGED <<runVars, queryVars>>

\* ingest lines 417-424: one line of a data file.
IngestLine ==
  /\ ipc = "lines"
  /\ todo # <<>>
  /\ LET line == Head(todo) IN
     IF ~line.json
       THEN /\ skipped' = skipped + 1
            /\ todo' = Tail(todo)
            /\ UNCHANGED <<db, txn, ipc, outcome>>
       ELSE LET r == InsertRun(txn, line.record) IN
            IF r.raised = "none"
              THEN /\ txn' = r.store
                   /\ todo' = Tail(todo)
                   /\ UNCHANGED <<db, ipc, skipped, outcome>>
              ELSE \* `with db` (line 408) rolls back and the exception leaves ingest
                   /\ txn' = db
                   /\ ipc' = "idle"
                   /\ outcome' = r.raised
                   /\ UNCHANGED <<db, todo, skipped>>
  /\ UNCHANGED <<clear, batch, before>>
  /\ UNCHANGED <<runVars, queryVars>>

\* ingest lines 408 and 426: the with block ends, the transaction commits.
IngestCommit ==
  /\ ipc = "lines"
  /\ todo = <<>>
  /\ db' = txn
  /\ ipc' = "idle"
  /\ outcome' = "committed"
  /\ UNCHANGED <<txn, clear, todo, batch, before, skipped>>
  /\ UNCHANGED <<runVars, queryVars>>

\* The process dies before the commit: SQLite discards the open transaction.
IngestCrash ==
  /\ ipc = "lines"
  /\ txn' = db
  /\ ipc' = "idle"
  /\ outcome' = "crashed"
  /\ UNCHANGED <<db, clear, todo, batch, before, skipped>>
  /\ UNCHANGED <<runVars, queryVars>>

StoreNext ==
  \/ IngestBegin
  \/ IngestLine
  \/ IngestCommit
  \/ IngestCrash

\* ------------------------------------------------------- status and diff
MaxRows == 3      \* run records in the database a query command reads

\* SQLite's BINARY collation on the strings of the model, ascending.
Collation ==
  <<"", "SyntaxError: y", "TypeError: x", "a", "a/x.js", "a/y.js", "b", "b/w.js",
    "b/z.js">>
Rank(s) == CHOOSE i \in 1..Len(Collation) : Collation[i] = s

\* The results `order by <column>` allows for the rows of bag B: ascending in
\* the column, rows that are equal in it in any order.
OrderBy(B, column) ==
  {seq \in [1..BagCardinality(B) -> BagToSet(B)] :
     /\ \A x \in BagToSet(B) : Cardinality({i \in DOMAIN seq : seq[i] = x}) = CopiesIn(x, B)
     /\ \A i, j \in DOMAIN seq : i < j => Rank(seq[i][column]) <= Rank(seq[j][column])}

\* sum(...) and count(*) over the rows S of a join, row x standing for w[x] rows.
RECURSIVE SumOf(_, _)
SumOf(S, w) ==
  IF S = {} THEN 0
  ELSE LET x == CHOOSE y \in S : TRUE IN w[x] + SumOf(S \ {x}, w)

RECURSIVE GCD(_, _)
GCD(m, n) == IF n = 0 THEN m ELSE GCD(n, m % n)

\* cast(ok as real) / total * 100 (line 464), as a fraction in lowest terms.
Perc(ok, total) ==
  LET g == GCD(ok * 100, total) IN [num |-> (ok * 100) \div g, den |-> total \div g]

\* The CTE q without its `r.version = ?`.
StatusQAnyVersion(store, version) ==
  {p \in BagToSet(store.runs) \X store.groups : p[1].testcase_sid = p[2].path_sid}

\* status lines 449-454, the CTE q: the runs of the version, each with the
\* group row of its test case.
StatusQ(store, version) ==
  {p \in BagToSet(store.runs) \X store.groups :
     p[1].version = version /\ p[1].testcase_sid = p[2].path_sid}

\* status lines 455-463, the CTE q2 (the same statement is the whole query of
\* gen_dashboard.py, lines 63-77): one row per group_sid with the group's
\* string, sum(success) and count(*), ordered by the string.
StatusQ2(store, version) ==
  LET q == {p \in StatusQ(store, version) : p[2].group_sid \in 1..Len(store.strings)}
      members(gs) == {p \in q : p[2].group_sid = gs}
      copies == [p \in q |-> store.runs[p[1]]]
      row(gs) ==
        [grp |-> store.strings[gs],
         ok |-> SumOf({p \in members(gs) : p[1].error_message_sid = Null}, copies),
         total |-> SumOf(members(gs), copies)]
  IN OrderBy(SetToBag({row(p[2].group_sid) : p \in q}), "grp")

\* status lines 448-466: the rows fetched, (grp, perc).
Status(store, version) ==
  {[i \in DOMAIN q2 |-> [grp |-> q2[i].grp, perc |-> Perc(q2[i].ok, q2[i].total)]] :
     q2 \in StatusQ2(store, version)}

\* diff lines 542-553: the join of the first query, as a bag of result rows.
NewFailuresRows(store, version_a, version_b) ==
  LET ids == 1..Len(store.strings)
      pairs == {p \in BagToSet(store.runs) \X BagToSet(store.runs) :
                  /\ p[1].testcase_sid = p[2].testcase_sid
                  /\ p[1].use_strict = p[2].use_strict
                  /\ p[1].version = version_a
                  /\ p[2].version = version_b
                  /\ p[1].error_message_sid = Null
                  /\ p[2].error_message_sid # Null
                  /\ p[1].testcase_sid \in ids
                  /\ p[2].error_message_sid \in ids}
      row(p) == [testcase |-> store.strings[p[1].testcase_sid],
                 error_message |-> store.strings[p[2].error_message_sid]]
      copies == [p \in pairs |-> store.runs[p[1]] * store.runs[p[2]]]
  IN [r \in {row(p) : p \in pairs} |-> SumOf({p \in pairs : row(p) = r}, copies)]

\* diff lines 542-556: new_failures.
NewFailures(store, version_a, version_b) ==
  OrderBy(NewFailuresRows(store, version_a, version_b), "testcase")

\* The join of the second query without its `a.use_strict = b.use_strict`.
NewFixesRowsAnyStrictness(store, version_a, version_b) ==
  LET ids == 1..Len(store.strings)
      pairs == {p \in BagToSet(store.runs) \X BagToSet(store.runs) :
                  /\ p[1].testcase_sid = p[2].testcase_sid
                  /\ p[1].version = version_a
                  /\ p[2].version = version_b
                  /\ p[1].error_message_sid # Null
                  /\ p[2].error_message_sid = Null
                  /\ p[1].testcase_sid \in ids}
      row(p) == [testcase |-> store.strings[p[1].testcase_sid]]
      copies == [p \in pairs |-> store.runs[p[1]] * store.runs[p[2]]]
  IN [r \in {row(p) : p \in pairs} |-> SumOf({p \in pairs : row(p) = r}, copies)]

\* diff lines 565-575: the join of the second query, as a bag of result rows.
NewFixesRows(store, version_a, version_b) ==
  LET ids == 1..Len(store.strings)
      pairs == {p \in BagToSet(store.runs) \X BagToSet(store.runs) :
                  /\ p[1].testcase_sid = p[2].testcase_sid
                  /\ p[1].use_strict = p[2].use_strict
                  /\ p[1].version = version_a
                  /\ p[2].version = version_b
                  /\ p[1].error_message_sid # Null
                  /\ p[2].error_message_sid = Null
                  /\ p[1].testcase_sid \in ids}
      row(p) == [testcase |-> store.strings[p[1].testcase_sid]]
      copies == [p \in pairs |-> store.runs[p[1]] * store.runs[p[2]]]
  IN [r \in {row(p) : p \in pairs} |-> SumOf({p \in pairs : row(p) = r}, copies)]

\* diff lines 565-577: new_successes.
NewFixes(store, version_a, version_b) ==
  OrderBy(NewFixesRows(store, version_a, version_b), "testcase")

NoReport ==
  [cmd |-> "none", version_a |-> 0, version_b |-> 0, rows |-> <<>>, fixes |-> <<>>]

\* The records of the result files that were ingested: one per unit that run
\* submits for two of the test cases, at any revision, passing or failing.
QueryUnits == SubmittedUnits({"a/x.js", "b/z.js"})
FailureOf(use_strict) ==
  [category |-> "test",
   message |-> IF use_strict THEN "TypeError: x" ELSE "SyntaxError: y"]
QueryRecords ==
  UNION {{Tagged(u[1], v, u[2], e) : v \in Revisions, e \in {None, FailureOf(u[2])}} :
           u \in QueryUnits}

RECURSIVE LoadAll(_, _)
LoadAll(store, records) ==
  IF records = {} THEN store
  ELSE LET r == CHOOSE x \in records : TRUE
       IN LoadAll(InsertRunRows(store, r), records \ {r})

\* The sets of at most n records.
RECURSIVE RecordSets(_)
RecordSets(n) ==
  IF n = 0 THEN {{}}
  ELSE LET smaller == RecordSets(n - 1)
       IN smaller \cup {T \cup {r} : T \in smaller, r \in QueryRecords}

\* The databases the query commands are given: up to MaxRows records loaded
\* with the statements of insert_run, one of them possibly from a data file
\* that was loaded twice.
QueryStores ==
  {LoadAll(EmptyStore, S) : S \in RecordSets(MaxRows)}
  \cup {InsertRunRows(LoadAll(EmptyStore, S), r) :
          S \in RecordSets(MaxRows - 1), r \in QueryRecords}

\* status lines 433-469, the one command of its process.
StatusCmd ==
  /\ report = NoReport
  /\ \E version \in Revisions : \E rows \in Status(db, version) :
       report' = [cmd |-> "status", version_a |-> version, version_b |-> version,
                  rows |-> rows, fixes |-> <<>>]
  /\ UNCHANGED <<runVars, storeVars, cache, returned>>

\* diff lines 535-582, the one command of its process.
DiffCmd ==
  /\ report = NoReport
  /\ \E version_a, version_b \in Revisions :
       \E new_failures \in NewFailures(db, version_a, version_b) :
         \E new_successes \in NewFixes(db, version_a, version_b) :
           report' = [cmd |-> "diff", version_a |-> version_a, version_b |-> version_b,
                      rows |-> new_failures, fixes |-> new_successes]
  /\ UNCHANGED <<runVars, storeVars, cache, returned>>

QueryNext ==
  \/ StatusCmd
  \/ DiffCmd

\* ----------------------------------------------------------- insert_string
\* The strings insert_string is called with: two the sample databases may
\* hold already and one they never hold.
InternStrings == {"a", "a/x.js", "c/new.js"}
MaxCalls == 2     \* calls of insert_string followed for one string

\* functools.cache of a fresh process: no string has an id yet (ids start at 1).
NoCache == [s \in InternStrings |-> 0]
NoneReturned == [s \in InternStrings |-> <<>>]

\* insert_string(db, s), lines 90-95: the memoized id when this process has
\* asked for s before, else insert or ignore and select.
InsertStringCall ==
  /\ ipc = "idle"
  /\ \E s \in InternStrings :
       /\ Len(returned[s]) < MaxCalls
       /\ IF cache[s] # 0
            THEN /\ returned' = [returned EXCEPT ![s] = Append(@, cache[s])]
                 /\ UNCHANGED <<txn, cache>>
            ELSE LET strings == InsertString(txn.strings, s)
                     string_id == StringId(strings, s)
                 IN /\ txn' = [txn EXCEPT !.strings = strings]
                    /\ cache' = [cache EXCEPT ![s] = string_id]
                    /\ returned' = [returned EXCEPT ![s] = Append(@, string_id)]
  /\ UNCHANGED <<db, ipc, clear, todo, batch, before, skipped, outcome, report>>
  /\ UNCHANGED runVars

\* init line 88: db.commit() by the caller of insert_string.
InternCommit ==
  /\ ipc = "idle"
  /\ txn # db
  /\ db' = txn
  /\ UNCHANGED <<txn, ipc, clear, todo, batch, before, skipped, outcome>>
  /\ UNCHANGED <<runVars, queryVars>>

\* The process ends and a later one connects to the database file: what was
\* not committed is gone, rows and ids handed out for them alike, and the
\* cache starts empty.
Reconnect ==
  /\ ipc = "idle"
  /\ cache # NoCache
  /\ txn' = db
  /\ cache' = NoCache
  /\ returned' = [s \in InternStrings |->
                    IF HasString(db.strings, s) THEN returned[s] ELSE <<>>]
  /\ UNCHANGED <<db, ipc, clear, todo, batch, before, skipped, outcome, report>>
  /\ UNCHANGED runVars

InternNext ==
  \/ InsertStringCall
  \/ InternCommit
  \/ Reconnect

\* ---------------------------------------------------------- specifications

\* `run` alone: the database is not touched.
QueryIdle == report = NoReport /\ cache = NoCache /\ returned = NoneReturned

RunInit == RunInitWith(RunInputs)
Init == RunInit /\ StoreInit /\ db = EmptyStore /\ QueryIdle
Next == RunNext
Spec == Init /\ [][Next]_vars

\* `ingest` alone: no run is in progress.
RunIdle ==
  /\ commits_filename = FALSE /\ commits = <<1>> /\ testcases = {}
  /\ force = FALSE /\ max_jobs = 1
  /\ pc = "done" /\ idx = 2 /\ exc = "none" /\ head = OrigHead
  /\ gz = [v \in Revisions |-> NoFile] /\ jsonl = [v \in Revisions |-> NoFile]
  /\ tasks = [u \in Units |-> NoTask] /\ free = 0 /\ lingering = 0
  /\ phase = [v \in Revisions |-> "Pending"]

StoreSpecInit == RunIdle /\ StoreInit /\ QueryIdle
SpecStore == StoreSpecInit /\ [][StoreNext]_vars

\* `run` with the event loop's timer: a task still waiting for its subprocess
\* when the 10 s of wait_for are over gets its TimeoutError.
LiveInit == RunInitWith(SmallRunInputs) /\ StoreInit /\ db = EmptyStore /\ QueryIdle
LiveSpec ==
  LiveInit /\ [][Next]_vars /\ \A u \in SubmittedUnits(Paths) : WF_vars(TestTimeout(u))

\* `status` and `diff` alone, on a database that was loaded before.
QueryInit == RunIdle /\ db \in QueryStores /\ StoreIdle /\ QueryIdle
SpecQuery == QueryInit /\ [][QueryNext]_vars

\* insert_string alone, called by processes that follow one another on one
\* database file.
InternInit == RunIdle /\ StoreInit /\ QueryIdle
SpecIntern == InternInit /\ [][InternNext]_vars

\* ------------------------------------------------------------------ claims
IsNegative(u) == AllTestCases[u[1]].negative
RunEnded == pc \in {"done", "raised"}

\* C1: during run, the number of test subprocesses that have been started and
\* have not yet exited never exceeds max_jobs.
C1_LiveProcsWithinCap == ~RunEnded => LiveProcs <= max_jobs

\* C2: while switch_to_version works on the next revision, no test subprocess
\* of an earlier revision is still alive, timed-out and killed ones included.
C2_DrainedBeforeSwitch == pc \in {"checkout", "build"} => LiveProcs = 0

\* C3: a failed checkout or build step of a revision does not abort the run,
\* leaves no run record for that revision, and every later revision of the
\* list is processed.
C3_BuildErrorSkipsRevision ==
  /\ exc # "CalledProcessError"
  /\ \A v \in Revisions :
       phase[v] = "BuildFailed" =>
         /\ jsonl[v].lines = EmptyBag
         /\ gz[v].state \notin {"open", "written"}
         /\ pc = "done" => \A k \in 1..Len(commits) : phase[commits[k]] # "Pending"

\* C4: on every exit path of run the repository ends with the checkout it had
\* before the run started.
C4_CheckoutRestored == RunEnded => head = OrigHead

\* C5: a test-level failure of a unit (timeout, nonzero exit, unparseable
\* output after a zero exit) never aborts the batch, and is recorded as a
\* failing verdict of that unit.
C5_TestFailureRecorded ==
  /\ exc \notin {"JSONDecodeError", "IndexError"}
  /\ \A u \in Units :
       tasks[u].st = "done" /\ tasks[u].outcome # None /\ ~IsNegative(u)
         => tasks[u].verdict.error # None

\* C6: for a negative test the verdict's error is `unexpected success` when
\* the classified outcome has no error and null when it has any error; for
\* other tests the classified outcome is the verdict's error.
C6_NegativeInversion ==
  \A u \in Units :
    tasks[u].st = "done" =>
      IF IsNegative(u)
        THEN IF tasks[u].outcome = None
               THEN tasks[u].verdict.error.category = "unexpected success"
               ELSE tasks[u].verdict.error = None
        ELSE tasks[u].verdict.error = tasks[u].outcome

\* A negative test timed out and its verdict carries no error.
C6_Witness ==
  \E u \in Units :
    /\ IsNegative(u) /\ tasks[u].st = "done"
    /\ tasks[u].outcome = TimeoutError /\ tasks[u].verdict.error = None

RunCount(store, record) ==
  LET hits == {r \in BagToSet(store.runs) :
                 /\ store.strings[r.testcase_sid] = record.testcase
                 /\ r.version = record.version
                 /\ r.use_strict = (IF record.use_strict THEN 1 ELSE 0)}
      RECURSIVE Sum(_)
      Sum(S) == IF S = {} THEN 0
                ELSE LET r == CHOOSE x \in S : TRUE
                     IN CopiesIn(r, store.runs) + Sum(S \ {r})
  IN Sum(hits)

ValidRecords(lines) == {lines[i].record : i \in {j \in 1..Len(lines) : lines[j].json}}

C9_IngestAtomic ==
  /\ (ipc = "lines" \/ outcome \in {"TypeError", "crashed"}) => db = before
  /\ outcome = "committed" =>
       /\ \A r \in ValidRecords(batch) : RunCount(db, r) >= 1
       /\ ~clear => before.runs \sqsubseteq db.runs

\* An ingest with --clear failed on a record and the earlier rows are there.
C9_Witness ==
  /\ ipc = "idle" /\ outcome = "TypeError" /\ clear
  /\ before.runs # EmptyBag /\ db = before

\* C10: after a forced pass over a revision (--force) no result of the earlier
\* test of that revision remains, whatever the outcome of its build and run.
C10_ForcePurges ==
  \A v \in Revisions :
    (force /\ phase[v] \in {"BuildFailed", "Persisted"}) => gz[v].state # "earlier"

\* C11: a revision whose results file exists is skipped at once when --force
\* is not set: the step that skips it checks nothing out, builds nothing,
\* starts no test, leaves every results file as it was and moves the loop to
\* the next revision; nothing else can be done for it; and the results of a
\* skipped revision stay those of its earlier test.
C11_SkipAlreadyTested ==
  /\ [][\A v \in Revisions :
          (phase[v] # "Skipped" /\ phase'[v] = "Skipped")
            => /\ v = vm_version /\ gz[v].state # "absent" /\ ~force
               /\ head' = head /\ gz' = gz /\ jsonl' = jsonl
               /\ tasks' = tasks /\ free' = free /\ lingering' = lingering
               /\ idx' = idx + 1
               /\ pc' = (IF idx < Len(commits) THEN "loop" ELSE "done")]_vars
  /\ [][(pc = "loop" /\ gz[vm_version].state # "absent" /\ ~force)
          => pc' \in {"loop", "done", "raised"}]_vars
  /\ [](\A v \in Revisions :
          phase[v] = "Skipped" => gz[v] = EarlierFile(v) /\ jsonl[v] = NoFile)

\* The first revision was skipped and the second one is being tested.
C11_Witness ==
  /\ Len(commits) > 1 /\ phase[commits[1]] = "Skipped"
  /\ gz[commits[1]] = EarlierFile(commits[1])
  /\ idx = 2 /\ pc = "collect" /\ head = Detached(commits[2])

\* The rows of runs that belong to revision r.
RunsOf(store, r) ==
  [x \in {y \in DOMAIN store.runs : y.version = r} |-> store.runs[x]]

\* Store `after` is store `b` with the run records of one revision deleted.
ClearedOneRevision(b, after) ==
  \E r \in Revisions :
    /\ RunsOf(after, r) = EmptyBag
    /\ \A q \in Revisions \ {r} : RunsOf(after, q) = RunsOf(b, q)

\* C12: clearing deletes exactly the run records of one revision: what the
\* clear step leaves in the transaction, and what the database holds once
\* that is committed, has no record of the revision and every record of the
\* other revisions.
C12_ClearOnlyRevision ==
  /\ (clear /\ ipc = "lines" /\ todo = batch) => ClearedOneRevision(before, txn)
  /\ (clear /\ outcome = "committed" /\ ValidRecords(batch) = {})
       => ClearedOneRevision(before, db)

\* The valid records of lines that belong to revision r, and how many there are.
ValidLinesOf(lines, r) == {j \in 1..Len(lines) : lines[j].json /\ lines[j].record.version = r}

\* A database that holds the valid records of lines and nothing else.
RECURSIVE HoldingOnly(_)
HoldingOnly(lines) ==
  IF lines = <<>> THEN EmptyStore
  ELSE LET rest == HoldingOnly(SubSeq(lines, 1, Len(lines) - 1))
           last == lines[Len(lines)]
       IN IF last.json THEN InsertRunRows(rest, last.record) ELSE rest

\* C13: after an ingest that cleared the earlier records and read N records of
\* revision r, the pass rates of r are those of exactly these N records: the
\* totals of the groups sum to N and no record of an earlier test of r counts.
C13_RetestPurge ==
  (ipc = "idle" /\ clear /\ outcome \notin {"none", "crashed"})
    => \A r \in Revisions :
         ValidLinesOf(batch, r) # {} =>
           /\ StatusQ2(db, r) = StatusQ2(HoldingOnly(batch), r)
           /\ \A q2 \in StatusQ2(db, r) :
                SumOf(DOMAIN q2, [i \in DOMAIN q2 |-> q2[i].total])
                  = Cardinality(ValidLinesOf(batch, r))

\* C14: an ingest of a batch with k malformed lines among n valid ones, in any
\* positions, commits, reports k skipped lines and has inserted exactly the n
\* valid records.
C14_MalformedSkipped ==
  (ipc = "idle" /\ outcome \notin {"none", "crashed"})
    => /\ outcome = "committed"
       /\ skipped = Cardinality({j \in 1..Len(batch) : ~batch[j].json})
       /\ BagCardinality(db.runs)
            = (IF clear THEN 0 ELSE BagCardinality(before.runs))
                + Cardinality({j \in 1..Len(batch) : batch[j].json})
       /\ \A r \in ValidRecords(batch) : RunCount(db, r) >= 1

\* The run records of revision v whose test case lies in directory g, counted
\* with their copies; with `passing` only those without an error.
RecordsAt(store, v, g, passing) ==
  SumOf({r \in BagToSet(store.runs) :
           /\ r.version = v
           /\ Dirname(store.strings[r.testcase_sid]) = g
           /\ passing => r.error_category = "NULL"},
        store.runs)
GroupsAt(store, v) ==
  {Dirname(store.strings[r.testcase_sid]) : r \in {x \in BagToSet(store.runs) : x.version = v}}

\* C15: for every revision the pass-rate query has one row per directory with
\* a run record at that revision, holding the directory, the number of its
\* records at the revision without error and the number of its records at the
\* revision, in ascending order of the directory name; records of other
\* revisions are not counted.  The rows `status` fetches are these rows with
\* the two counts turned into the percentage ok / total * 100.
C15_PassRate ==
  /\ \A v \in Revisions :
       /\ StatusQ2(db, v) # {}
       /\ \A q2 \in StatusQ2(db, v) :
            /\ {q2[i] : i \in DOMAIN q2}
                 = {[grp |-> g, ok |-> RecordsAt(db, v, g, TRUE),
                     total |-> RecordsAt(db, v, g, FALSE)] : g \in GroupsAt(db, v)}
            /\ \A i, j \in DOMAIN q2 : i < j => Rank(q2[i].grp) < Rank(q2[j].grp)
  /\ report.cmd = "status" =>
       LET v == report.version_a
           rows == report.rows
       IN /\ {rows[i].grp : i \in DOMAIN rows} = GroupsAt(db, v)
          /\ \A i, j \in DOMAIN rows : i < j => Rank(rows[i].grp) < Rank(rows[j].grp)
          /\ \A i \in DOMAIN rows :
               rows[i].perc = Perc(RecordsAt(db, v, rows[i].grp, TRUE),
                                   RecordsAt(db, v, rows[i].grp, FALSE))

\* status answered with the rows of directories a and b, in this order, from a
\* database that also holds a record of another revision.
C15_Witness ==
  /\ report.cmd = "status" /\ Len(report.rows) = 2
  /\ report.rows[1].grp = "a" /\ report.rows[2].grp = "b"
  /\ \E r \in BagToSet(db.runs) : r.version # report.version_a

\* The (test case, strictness) pairs with a record of revision va that passes
\* (`a_fails` FALSE) or fails (TRUE) and a record of revision vb that does the
\* opposite.
ChangedPairs(store, va, vb, a_fails) ==
  {u \in Paths \X {0, 1} :
     \E a, b \in BagToSet(store.runs) :
       /\ store.strings[a.testcase_sid] = u[1] /\ store.strings[b.testcase_sid] = u[1]
       /\ a.use_strict = u[2] /\ b.use_strict = u[2]
       /\ a.version = va /\ b.version = vb
       /\ (a.error_category # "NULL") = a_fails
       /\ (b.error_category = "NULL") = a_fails}

\* The failure messages of the records of revision v for pair u.
MessagesOf(store, v, u) ==
  {store.strings[r.error_message_sid] :
     r \in {x \in BagToSet(store.runs) :
              /\ store.strings[x.testcase_sid] = u[1] /\ x.use_strict = u[2]
              /\ x.version = v /\ x.error_category # "NULL"}}

TestcasesOf(rows) == [i \in DOMAIN rows |-> rows[i].testcase]

\* C17: for every database and every two revisions A and B the test cases
\* that diff(A, B) lists as new failures are those that diff(B, A) lists as
\* new fixes, and the new fixes of diff(A, B) are the new failures of
\* diff(B, A), the messages left aside.
C17_DiffSymmetry ==
  /\ \A va, vb \in Revisions :
       /\ {TestcasesOf(rows) : rows \in NewFailures(db, va, vb)}
            = {TestcasesOf(rows) : rows \in NewFixes(db, vb, va)}
       /\ Cardinality({TestcasesOf(rows) : rows \in NewFailures(db, va, vb)}) = 1
  /\ report.cmd = "diff" =>
       /\ \A rows \in NewFixes(db, report.version_b, report.version_a) :
            TestcasesOf(report.rows) = TestcasesOf(rows)
       /\ \A rows \in NewFailures(db, report.version_b, report.version_a) :
            TestcasesOf(report.fixes) = TestcasesOf(rows)

\* diff of two different revisions listed one new failure and no new fix,
\* from a database that holds a third record as well.
C17_Witness ==
  /\ report.cmd = "diff" /\ report.version_a # report.version_b
  /\ Len(report.rows) = 1 /\ report.fixes = <<>>
  /\ Cardinality(BagToSet(db.runs)) = MaxRows

\* The rows of table strings that hold s.
RowsOf(strings, s) == {i \in 1..Len(strings) : strings[i] = s}

\* C18: interning is idempotent: whatever calls were made, by one process or
\* by processes that followed one another, all calls of insert_string for a
\* string returned one id, the table holds exactly one row for the string and
\* the id is that of the row; different strings never got the same id.
C18_InternIdempotent ==
  /\ \A s \in InternStrings :
       /\ Cardinality(RowsOf(db.strings, s)) <= 1
       /\ returned[s] # <<>> =>
            /\ Cardinality(RowsOf(txn.strings, s)) = 1
            /\ \A k \in DOMAIN returned[s] : RowsOf(txn.strings, s) = {returned[s][k]}
  /\ \A s, t \in InternStrings :
       s # t => \A k \in DOMAIN returned[s], l \in DOMAIN returned[t] :
                  returned[s][k] # returned[t][l]

\* A string the database did not hold was interned and committed, and a later
\* process interned it again; so was a string the database held from the start.
C18_Witness ==
  /\ Len(returned["c/new.js"]) = 2 /\ HasString(before.strings, "a")
  /\ HasString(db.strings, "c/new.js")
  /\ cache["c/new.js"] # 0 /\ cache["a"] = 0 /\ Len(returned["a"]) = 2

\* A test of the current revision has been submitted and the run goes on.
TestsSubmitted == pc \in {"collect", "compress"} /\ \E u \in Units : tasks[u].st # "none"

\* C19 as stated: a revision that is not skipped as already tested moves only
\* Pending -> Building -> Running -> Persisted or Pending -> Building ->
\* BuildFailed, and no test of a revision is submitted unless the revision was
\* checked out and built before.
C19_Lifecycle ==
  /\ [][\A v \in Revisions :
          (phase'[v] # phase[v] /\ phase'[v] # "Skipped")
            => <<phase[v], phase'[v]>> \in
                 { <<"Pending", "Building">>, <<"Building", "Running">>,
                   <<"Running", "Persisted">>, <<"Building", "BuildFailed">> }]_vars
  /\ [](TestsSubmitted => head = Detached(vm_version) /\ phase[vm_version] = "Running")

\* C19 amended: with --commits a revision that is not skipped moves only
\* Pending -> Building -> Running -> Persisted or Pending -> Building ->
\* BuildFailed, its tests are submitted only after it was checked out and
\* built, and BuildFailed, Persisted and Skipped are final; without --commits
\* the one revision the repository has checked out moves Pending -> Running
\* -> Persisted, tested as it is found, with no checkout and no build.
C19_LifecycleByMode ==
  /\ [][\A v \in Revisions :
          phase'[v] # phase[v]
            => /\ v = vm_version
               /\ <<phase[v], phase'[v]>> \in
                    (IF commits_filename
                       THEN { <<"Pending", "Skipped">>, <<"Pending", "Building">>,
                              <<"Building", "Running">>, <<"Running", "Persisted">>,
                              <<"Building", "BuildFailed">> }
                       ELSE { <<"Pending", "Skipped">>, <<"Pending", "Running">>,
                              <<"Running", "Persisted">> })
               /\ phase'[v] = "Running" =>
                    /\ pc = "submit"
                    /\ head = (IF commits_filename THEN Detached(v) ELSE OrigHead)]_vars
  /\ [](TestsSubmitted =>
          /\ phase[vm_version] = "Running"
          /\ head = (IF commits_filename THEN Detached(vm_version) ELSE OrigHead))
  /\ [](\A v \in Revisions :
          phase[v] = "BuildFailed" => (pc = "done" \/ vm_version # v \/ ~TestsSubmitted))

\* The build of the first revision failed and the second revision was tested
\* and its results stored.
C19_Witness ==
  /\ Len(commits) > 1
  /\ phase[commits[1]] = "BuildFailed" /\ phase[commits[2]] = "Persisted"
  /\ gz[commits[2]].state = "written"

\* The lines of a results file that carry the tags of unit u at revision v.
LinesOf(file, u, v) ==
  {l \in BagToSet(file.lines) :
     l.testcase = u[1] /\ l.use_strict = u[2] /\ l.version = v}

\* C20: the compressed results of a revision whose run completed hold exactly
\* one verdict for every submitted (test case, strictness) unit and nothing
\* else, whatever the order in which the units completed, and each verdict
\* carries the path, the strictness and the revision of its unit.
C20_OneVerdictPerUnit ==
  \A v \in Revisions :
    gz[v].state = "written" =>
      /\ phase[v] = "Persisted"
      /\ BagCardinality(gz[v].lines) = Cardinality(SubmittedUnits(testcases))
      /\ \A u \in SubmittedUnits(testcases) :
           /\ Cardinality(LinesOf(gz[v], u, v)) = 1
           /\ \A l \in LinesOf(gz[v], u, v) : CopiesIn(l, gz[v].lines) = 1

\* The results of a batch of four units were stored, one of them a timeout
\* and one a failure the engine reported, with another unit passing.
C20_Witness ==
  \E v \in Revisions :
    /\ gz[v].state = "written" /\ BagCardinality(gz[v].lines) = 4
    /\ \E l1, l2, l3 \in BagToSet(gz[v].lines) :
         /\ l1.error = TimeoutError
         /\ l2.error = None
         /\ l3.error.category = "test"

\* The last line of what a subprocess printed (stdout.splitlines()[-1]).
LastLine(exit) == exit.lines[Len(exit.lines)]

\* C21: before the negative-test reconciliation the outcome of an invocation
\* is {timeout, runner timed out} when its subprocess was killed by the
\* timeout, whatever the subprocess left behind; otherwise {runner failure,
\* the captured stdout, or one fixed placeholder when stdout is not valid
\* text} when the exit code is not zero; otherwise the JSON value of the last
\* line of stdout, whatever the earlier lines are.  Only a zero exit whose
\* last line holds no JSON value yields no outcome.
C21_ClassifyPriority ==
  \A u \in Units :
    /\ tasks[u].st = "done" =>
         tasks[u].outcome =
           IF tasks[u].timed_out
             THEN [category |-> "timeout", message |-> "runner timed out"]
           ELSE IF tasks[u].exit.returncode # 0
             THEN [category |-> "runner failure",
                   message |-> IF tasks[u].exit.utf8 THEN tasks[u].exit.text
                               ELSE "<# encoding error #>"]
           ELSE JsonLoads(LastLine(tasks[u].exit)).error
    /\ tasks[u].st = "raised" =>
         /\ ~tasks[u].timed_out
         /\ tasks[u].exit.returncode = 0
         /\ \/ Len(tasks[u].exit.lines) = 0
            \/ JsonLoads(LastLine(tasks[u].exit)).raised # "none"

\* Three invocations of one batch were classified: one killed by the timeout,
\* one that exited nonzero with stdout that is not valid text, and one that
\* exited zero with a noise line before the line of its JSON value.
C21_Witness ==
  \E u1, u2, u3 \in Units :
    /\ tasks[u1].st = "done" /\ tasks[u1].timed_out
    /\ tasks[u1].exit.returncode # 0 /\ tasks[u1].outcome = TimeoutError
    /\ tasks[u2].st = "done" /\ ~tasks[u2].timed_out
    /\ tasks[u2].exit.returncode # 0 /\ ~tasks[u2].exit.utf8
    /\ tasks[u2].outcome.category = "runner failure"
    /\ tasks[u3].st = "done" /\ ~tasks[u3].timed_out
    /\ tasks[u3].exit.returncode = 0 /\ Len(tasks[u3].exit.lines) > 1
    /\ tasks[u3].outcome.category = "test"

\* The strictness modes for which a task of test case p exists.
ModesOf(p) == {m \in BOOLEAN : tasks[<<p, m>>].st # "none"}

\* C22: once the tasks of a revision are submitted, a selected test case with
\* `onlyStrict` has a task for the strict unit only, one with `noStrict` for
\* the non-strict unit only, one with neither flag for both units, and a test
\* case that is not selected has none; the submission creates all of them in
\* one step, each not yet started.
C22_ApplicableModes ==
  /\ [](pc \in {"collect", "compress"} =>
          \A p \in Paths :
            LET flags == AllTestCases[p].flags IN
            /\ p \notin testcases => ModesOf(p) = {}
            /\ (p \in testcases /\ flags = {"onlyStrict"}) => ModesOf(p) = {TRUE}
            /\ (p \in testcases /\ flags = {"noStrict"}) => ModesOf(p) = {FALSE}
            /\ (p \in testcases /\ flags = {}) => ModesOf(p) = {TRUE, FALSE})
  /\ [][(pc = "submit" /\ pc' = "collect") =>
          \A u \in Units : tasks[u].st = "none" /\ tasks'[u].st \in {"none", "pending"}]_vars

\* All test cases were selected and every submitted task has been collected:
\* two units of the test without flags, the strict unit of the `onlyStrict`
\* test and the non-strict unit of the `noStrict` test.
C22_Witness ==
  /\ pc = "collect" /\ testcases = Paths
  /\ tasks[<<"a/x.js", TRUE>>].st = "done" /\ tasks[<<"a/x.js", FALSE>>].st = "done"
  /\ tasks[<<"a/y.js", TRUE>>].st = "done" /\ tasks[<<"a/y.js", FALSE>>].st = "none"
  /\ tasks[<<"b/z.js", FALSE>>].st = "done" /\ tasks[<<"b/z.js", TRUE>>].st = "none"

\* The compressed results file of revision v that this run created.
MarkerMade(v) == gz[v].state \in {"open", "written"}

\* C23: when a run has ended, by finishing or by an interruption, the
\* compressed results file it created for a revision exists only if the
\* revision reached Persisted and the file holds a verdict of every submitted
\* unit; for a revision whose build failed, or whose run was interrupted
\* before it was Persisted, the run leaves no such file, so that a later run
\* without --force tests the revision again.
C23_MarkerMeansPersisted ==
  RunEnded =>
    \A v \in Revisions :
      /\ MarkerMade(v) =>
           /\ phase[v] = "Persisted"
           /\ \A u \in SubmittedUnits(testcases) : LinesOf(gz[v], u, v) # {}
      /\ phase[v] \in {"Building", "BuildFailed", "Running"} => ~MarkerMade(v)

====
